---- MODULE Spec2Model ----
(***************************************************************************)
(* Model of the class SU of SU.ipynb: the angular-momentum generators      *)
(* built by SU.__init__, the operators returned by SU.gen_op (through      *)
(* SU._rotation and SU._reflection) and the D2 worked example of the       *)
(* notebook's third cell.                                                  *)
(*                                                                         *)
(* Numbers.  The notebook computes in IEEE double precision.  The model    *)
(* computes in exact arithmetic: a number is an element of the field       *)
(* Q(i)(sqrt 2, sqrt 3, sqrt 5, ...), which holds every entry of Lx, Ly,   *)
(* Lz, every normalised axis with integer components and every phase       *)
(* exp(-i*k*(pi/2)*m).  The two non-finite doubles the code can produce    *)
(* (0/0 = nan, x/0 = inf) are modelled by numbers with denominator 0.      *)
(***************************************************************************)
EXTENDS Integers, Sequences, FiniteSets, TLC

----------------------------------------------------------------------------
(* Integer helpers *)

Abs(n) == IF n < 0 THEN -n ELSE n

RECURSIVE GCDNat(_, _)
GCDNat(a, b) == IF b = 0 THEN a ELSE GCDNat(b, a % b)

GCD(a, b) == GCDNat(Abs(a), Abs(b))

\* The largest s with s*s dividing n (n > 0), searched downwards from s.
RECURSIVE SqPart(_, _)
SqPart(n, s) == IF s <= 1 THEN 1 ELSE IF n % (s * s) = 0 THEN s ELSE SqPart(n, s - 1)

\* The largest s with s*s <= n.
RECURSIVE ISqrt(_, _)
ISqrt(n, s) == IF (s + 1) * (s + 1) > n THEN s ELSE ISqrt(n, s + 1)

----------------------------------------------------------------------------
(* Exact numbers: [d |-> denominator, t |-> terms], terms a function from  *)
(* square-free radicands r to pairs <<a, b>>, the number being             *)
(* (1/d) * SUM_r (a + i*b) * sqrt(r).  Canonical form: d > 0, no zero      *)
(* term, gcd of d and all a, b equal to 1.  d = 0 marks a non-finite       *)
(* double: nan (no term) or inf.                                           *)

Zero == [d |-> 1, t |-> <<>>]
NaN == [d |-> 0, t |-> <<>>]
Inf == [d |-> 0, t |-> (1 :> <<1, 0>>)]
IsFinite(x) == x.d # 0

RECURSIVE GcdOver(_, _, _)
GcdOver(t, S, g) ==
  IF S = {} \/ g = 1 THEN g
  ELSE LET r == CHOOSE r \in S : TRUE
       IN GcdOver(t, S \ {r}, GCD(GCD(g, t[r][1]), t[r][2]))

\* (1/d) * SUM t with d and the terms of the radicands nz divided by s.
Reduced(d, t, nz, s) ==
  [d |-> d \div s, t |-> [r \in nz |-> <<t[r][1] \div s, t[r][2] \div s>>]]

\* Canonical form of (1/d) * SUM t, d # 0, nz the radicands of its non-zero
\* terms: divided by the gcd, with the sign of d.
CanonOn(d, t, nz) ==
  IF nz = {} THEN Zero
  ELSE Reduced(d, t, nz, GcdOver(t, nz, Abs(d)) * (IF d < 0 THEN -1 ELSE 1))

\* Canonical form of (1/d) * SUM t, d # 0.
Canon(d, t) == CanonOn(d, t, {r \in DOMAIN t : t[r] # <<0, 0>>})

Coef(x, r) == IF r \in DOMAIN x.t THEN x.t[r] ELSE <<0, 0>>

FromInt(n) == IF n = 0 THEN Zero ELSE [d |-> 1, t |-> (1 :> <<n, 0>>)]
Rat(n, d) == Canon(d, (1 :> <<n, 0>>))
One == [d |-> 1, t |-> (1 :> <<1, 0>>)]
ImagUnit == [d |-> 1, t |-> (1 :> <<0, 1>>)]

Add(x, y) ==
  IF ~IsFinite(x) \/ ~IsFinite(y) THEN NaN
  ELSE IF x = Zero THEN y
  ELSE IF y = Zero THEN x
  ELSE Canon(x.d * y.d,
             [r \in (DOMAIN x.t) \cup (DOMAIN y.t) |->
                <<Coef(x, r)[1] * y.d + Coef(y, r)[1] * x.d,
                  Coef(x, r)[2] * y.d + Coef(y, r)[2] * x.d>>])

Neg(x) ==
  IF ~IsFinite(x) THEN NaN
  ELSE IF x = Zero THEN Zero
  ELSE [d |-> x.d, t |-> [r \in DOMAIN x.t |-> <<-x.t[r][1], -x.t[r][2]>>]]

Sub(x, y) == Add(x, Neg(y))

Conj(x) ==
  IF ~IsFinite(x) THEN NaN
  ELSE IF x = Zero THEN Zero
  ELSE [d |-> x.d, t |-> [r \in DOMAIN x.t |-> <<x.t[r][1], -x.t[r][2]>>]]

\* sqrt(r1) * sqrt(r2) = RadMul * sqrt(RadOf), r1 and r2 square-free.
RadOf(r1, r2) == LET g == GCD(r1, r2) IN (r1 \div g) * (r2 \div g)
RadMul(r1, r2) == GCD(r1, r2)

RECURSIVE SumPairs(_, _, _)
SumPairs(x, y, P) ==
  IF P = {} THEN <<0, 0>>
  ELSE LET p == CHOOSE p \in P : TRUE
           a == x.t[p[1]]
           b == y.t[p[2]]
           g == RadMul(p[1], p[2])
           rest == SumPairs(x, y, P \ {p})
       IN <<g * (a[1] * b[1] - a[2] * b[2]) + rest[1],
            g * (a[1] * b[2] + a[2] * b[1]) + rest[2]>>

\* x * y as the sum over the pairs P of a term of x and a term of y,
\* collected by the radicand of the product.
MulTerms(x, y, P) ==
  Canon(x.d * y.d,
        [r \in {RadOf(p[1], p[2]) : p \in P} |->
           SumPairs(x, y, {p \in P : RadOf(p[1], p[2]) = r})])

Mul(x, y) ==
  IF ~IsFinite(x) \/ ~IsFinite(y) THEN NaN
  ELSE IF x = Zero \/ y = Zero THEN Zero
  ELSE IF x = One THEN y
  ELSE IF y = One THEN x
  ELSE MulTerms(x, y, (DOMAIN x.t) \X (DOMAIN y.t))

\* A real rational number n/d with n >= 0: the only arguments np.sqrt gets.
IsNonNegRational(x) ==
  IsFinite(x) /\ (x = Zero \/ (DOMAIN x.t = {1} /\ x.t[1][2] = 0 /\ x.t[1][1] > 0))

\* sqrt(n) for an integer n >= 0, as (s * sqrt(r)) with r square-free.
SqrtInt(n) ==
  IF n = 0 THEN Zero
  ELSE LET s == SqPart(n, ISqrt(n, 0))
       IN [d |-> 1, t |-> ((n \div (s * s)) :> <<s, 0>>)]

\* np.sqrt of a non-negative rational n/d = sqrt(n*d)/d; nan stays nan.
Sqrt(x) ==
  IF ~IsNonNegRational(x) THEN NaN
  ELSE IF x = Zero THEN Zero
  ELSE Mul(SqrtInt(x.t[1][1] * x.d), Rat(1, x.d))

\* x / y for y a real multiple of one square root (every divisor the code
\* uses is the result of np.sqrt); IEEE: 0/0 = nan, x/0 = inf.
Div(x, y) ==
  IF ~IsFinite(x) \/ ~IsFinite(y) THEN NaN
  ELSE IF y = Zero THEN (IF x = Zero THEN NaN ELSE Inf)
  ELSE LET r == CHOOSE r \in DOMAIN y.t : TRUE
           a == y.t[r][1]
       IN Mul(x, Canon(a * r, (r :> <<y.d, 0>>)))

----------------------------------------------------------------------------
(* Square matrices: sequences of rows.  The operations are those of numpy  *)
(* the notebook uses: +, scalar *, np.dot / np.einsum products, .T, conj.  *)
(* A binary operation takes its row range from the left operand and its    *)
(* column range from the right one (both operands are d x d).              *)

Size(A) == Len(A)

ZeroMat(d) == [i \in 1..d |-> [j \in 1..d |-> Zero]]
Eye(d) == [i \in 1..d |-> [j \in 1..d |-> IF i = j THEN One ELSE Zero]]
NaNMat(d) == [i \in 1..d |-> [j \in 1..d |-> NaN]]

MatAdd(A, B) == [i \in 1..Size(A) |-> [j \in 1..Size(B) |-> Add(A[i][j], B[i][j])]]
MatSub(A, B) == [i \in 1..Size(A) |-> [j \in 1..Size(B) |-> Sub(A[i][j], B[i][j])]]
Scale(c, A) == [i \in 1..Size(A) |-> [j \in 1..Size(A) |-> Mul(c, A[i][j])]]

RECURSIVE DotRow(_, _, _, _, _)
DotRow(A, B, i, j, k) ==
  IF k = 0 THEN Zero
  ELSE Add(DotRow(A, B, i, j, k - 1), Mul(A[i][k], B[k][j]))

MatMul(A, B) == [i \in 1..Size(A) |-> [j \in 1..Size(B) |-> DotRow(A, B, i, j, Size(A))]]

ConjT(A) == [i \in 1..Size(A) |-> [j \in 1..Size(A) |-> Conj(A[j][i])]]

RECURSIVE TraceUpTo(_, _)
TraceUpTo(A, k) == IF k = 0 THEN Zero ELSE Add(TraceUpTo(A, k - 1), A[k][k])
Trace(A) == TraceUpTo(A, Size(A))

MatFinite(A) == \A i \in 1..Size(A) : \A j \in 1..Size(A) : IsFinite(A[i][j])

Commutator(A, B) == MatSub(MatMul(A, B), MatMul(B, A))

----------------------------------------------------------------------------
(* SU.__init__: the generator matrices of a space with quantum number L    *)
(* (an integer >= 0).  Basis index i = 1..2L+1 carries m = -L + i - 1.     *)

Dim(L) == 2 * L + 1
MOf(L, i) == -L + i - 1

\* self.Lz = np.diag([m for m in range(-L, L + 1)])
Lz(L) ==
  [i \in 1..Dim(L) |-> [j \in 1..Dim(L) |->
     IF i = j THEN FromInt(MOf(L, i)) ELSE Zero]]

\* Lp = np.diag([sqrt(L*(L+1) - m*(m+1)) for m in range(-L, L)], k = -1):
\* the entry for m stands one row below the diagonal, in the column of m.
Lp(L) ==
  [i \in 1..Dim(L) |-> [j \in 1..Dim(L) |->
     IF i = j + 1 THEN SqrtInt(L * (L + 1) - MOf(L, j) * (MOf(L, j) + 1)) ELSE Zero]]

\* Lm = np.diag([sqrt(L*(L+1) - m*(m-1)) for m in range(-L+1, L+1)], k = +1):
\* the entry for m stands one column right of the diagonal, in the column of m.
Lm(L) ==
  [i \in 1..Dim(L) |-> [j \in 1..Dim(L) |->
     IF j = i + 1 THEN SqrtInt(L * (L + 1) - MOf(L, j) * (MOf(L, j) - 1)) ELSE Zero]]

\* self.Lx = 0.5 * (Lp + Lm)
Lx(L) == Scale(Rat(1, 2), MatAdd(Lp(L), Lm(L)))

\* Ly with the sign of the factor slipped: +0.5j * (Lp - Lm)
LyPlusSign(L) == Scale(Mul(Rat(1, 2), ImagUnit), MatSub(Lp(L), Lm(L)))

\* self.Ly = -0.5j * (Lp - Lm)
Ly(L) == Scale(Mul(Rat(-1, 2), ImagUnit), MatSub(Lp(L), Lm(L)))

\* self.SigmaXY = np.diag([(-1)**(L + m) for m in range(-L, L + 1)])
SigmaXY(L) ==
  [i \in 1..Dim(L) |-> [j \in 1..Dim(L) |->
     IF i # j THEN Zero ELSE IF (L + MOf(L, i)) % 2 = 0 THEN One ELSE FromInt(-1)]]

----------------------------------------------------------------------------
(* Angles.  An angle is [u |-> "halfpi", v |-> k], the angle k * (pi/2)    *)
(* for an integer k, or [u |-> "rad", v |-> x], the angle of x radians     *)
(* for a number x (SU._reflection uses a cosine as an angle).              *)

HalfPi(k) == [u |-> "halfpi", v |-> k]
Rad(x) == [u |-> "rad", v |-> x]

\* np.abs(ang)
AngAbs(ang) == IF ang.u = "halfpi" THEN HalfPi(Abs(ang.v)) ELSE ang

\* -ang
AngNeg(ang) == IF ang.u = "halfpi" THEN HalfPi(-ang.v) ELSE Rad(Neg(ang.v))

\* ang < 2. * np.pi  (2*pi is four quarter turns), for ang >= 0
AngBelowTwoPi(ang) == ang.u = "halfpi" /\ ang.v < 4

\* (-i)^n
PowNegI(n) ==
  CASE n % 4 = 0 -> One
    [] n % 4 = 1 -> Neg(ImagUnit)
    [] n % 4 = 2 -> FromInt(-1)
    [] n % 4 = 3 -> ImagUnit

\* Whether exp(-i * ang * e) is a number of the model for the integer e.
PhaseExact(ang, e) ==
  ang.u = "halfpi" \/ e = 0 \/ ang.v = Zero \/ ~IsFinite(ang.v)

\* The phase with a parenthesis slipped: np.exp(-1.j * ang) * e
PhaseTimesE(ang, e) ==
  IF ang.u = "halfpi" THEN Mul(FromInt(e), PowNegI(ang.v))
  ELSE IF ~IsFinite(ang.v) THEN NaN
  ELSE FromInt(e)

\* np.exp(-1.j * ang * e) for an integer eigenvalue e
Phase(ang, e) ==
  IF ang.u = "halfpi" THEN PowNegI(ang.v * e)
  ELSE IF ~IsFinite(ang.v) THEN NaN
  ELSE One

----------------------------------------------------------------------------
(* SU._rotation.  np.linalg.eigh(M) gives the spectral decomposition       *)
(* M = V diag(e) V^H of the Hermitian M = ax . (Lx, Ly, Lz), and line 91   *)
(* returns V diag(f(e)) V^H with f(e) = exp(-i*ang*e).  For a unit ax the  *)
(* eigenvalues e are -L..L, each once, and V diag(f(e)) V^H = p(M) for the *)
(* polynomial p of degree 2L that interpolates f on -L..L (Lagrange):      *)
(* p = SUM_e f(e) * PROD_{k # e} (x - k)/(e - k).                          *)

\* Polynomials: sequences of coefficients <<c_0, c_1, ...>>.
PolyTimesLinear(p, k) ==
  [j \in 1..(Len(p) + 1) |->
     Sub(IF j > 1 THEN p[j - 1] ELSE Zero,
         IF j <= Len(p) THEN Mul(FromInt(k), p[j]) ELSE Zero)]

PolyScale(c, p) == [j \in 1..Len(p) |-> Mul(c, p[j])]

\* PROD_{k in -L..upTo, k # e} (x - k)/(e - k)
RECURSIVE LagrangeUpTo(_, _, _)
LagrangeUpTo(L, e, upTo) ==
  IF upTo < -L THEN <<One>>
  ELSE IF upTo = e THEN LagrangeUpTo(L, e, upTo - 1)
  ELSE PolyScale(Rat(1, e - upTo), PolyTimesLinear(LagrangeUpTo(L, e, upTo - 1), upTo))

\* The Lagrange polynomial of each eigenvalue e = -L..L, at index e + L + 1.
LagrangeTable(L) == [n \in 1..Dim(L) |-> LagrangeUpTo(L, MOf(L, n), L)]

\* Coefficient j of SUM_e exp(-i*ang*e) * Lagrange_e, summed over the first n nodes.
RECURSIVE InterpCoef(_, _, _, _, _)
InterpCoef(T, L, ang, j, n) ==
  IF n = 0 THEN Zero
  ELSE Add(InterpCoef(T, L, ang, j, n - 1), Mul(Phase(ang, MOf(L, n)), T[n][j]))

InterpOver(T, L, ang) == [j \in 1..Len(T) |-> InterpCoef(T, L, ang, j, Len(T))]

InterpPoly(L, ang) == InterpOver(LagrangeTable(L), L, ang)

\* <<M^0, M^1, ..., M^n>>
RECURSIVE Powers(_, _)
Powers(M, n) ==
  IF n = 0 THEN <<Eye(Size(M))>>
  ELSE LET P == Powers(M, n - 1) IN Append(P, MatMul(P[Len(P)], M))

\* SUM_{j >= from} p[j] * Pw[j]
RECURSIVE PolyAt(_, _, _, _)
PolyAt(p, Pw, d, from) ==
  IF from > Len(p) \/ from > Len(Pw) THEN ZeroMat(d)
  ELSE MatAdd(Scale(p[from], Pw[from]), PolyAt(p, Pw, d, from + 1))

\* M = ax[0] * self.Lx + ax[1] * self.Ly + ax[2] * self.Lz
AxisGenerator(self, ax) ==
  MatAdd(MatAdd(Scale(ax[1], self.Lx), Scale(ax[2], self.Ly)), Scale(ax[3], self.Lz))

\* The outcomes of np.linalg.eigh on a matrix holding nan: LAPACK either
\* reports no convergence (numpy raises LinAlgError) or returns nan.
EighNaNOutcomes == {"raise", "nan"}

Ok(val) == [kind |-> "ok", val |-> val]
Raise(exc) == [kind |-> exc]

\* Lines 90-91: the eigendecomposition of M and exp(-i*ang*M) built from it
Exponential(M, L, ang, eighNaN) ==
  IF ~MatFinite(M)
  THEN (IF eighNaN = "raise" THEN Raise("LinAlgError") ELSE Ok(NaNMat(Size(M))))
  ELSE Ok(PolyAt(InterpPoly(L, ang), Powers(M, 2 * L), Size(M), 1))

rotation(self, ang, ax, eighNaN) ==
  Exponential(AxisGenerator(self, ax), self.L, ang, eighNaN)

----------------------------------------------------------------------------
(* SU._reflection and SU.gen_op.  A call's outcome is a record whose kind  *)
(* is "ok" (an array is returned, in val), "None" (the call falls off the  *)
(* end of the function) or the name of the exception raised.               *)

\* x < 0 for a float x: false for nan; the sign of a one-term real number.
IsNeg(x) ==
  IsFinite(x) /\ x # Zero /\ \A r \in DOMAIN x.t : x.t[r][1] < 0 /\ x.t[r][2] = 0

VecNeg(v) == <<Neg(v[1]), Neg(v[2]), Neg(v[3])>>
RECURSIVE VecDotUpTo(_, _, _)
VecDotUpTo(v, w, n) ==
  IF n = 0 THEN Zero ELSE Add(VecDotUpTo(v, w, n - 1), Mul(v[n], w[n]))
VecDot(v, w) == VecDotUpTo(v, w, 3)
VecDiv(v, c) == <<Div(v[1], c), Div(v[2], c), Div(v[3], c)>>
\* np.cross(v, w)
CrossAt(v, w, a, b) == Sub(Mul(v[a], w[b]), Mul(v[b], w[a]))
VecCross(v, w) == <<CrossAt(v, w, 2, 3), CrossAt(v, w, 3, 1), CrossAt(v, w, 1, 2)>>

\* np.asarray(ax) for a list of three integers
AsArray(ax) == <<FromInt(ax[1]), FromInt(ax[2]), FromInt(ax[3])>>

\* ax / np.sqrt(np.sum(ax**2))
Normalize(v) == VecDiv(v, Sqrt(VecDot(v, v)))

\* np.dot / np.einsum of the outcomes of two calls, the left one made first:
\* the first exception raised ends the expression.
DotOutcome(a, b) ==
  IF a.kind # "ok" THEN a
  ELSE IF b.kind # "ok" THEN b
  ELSE Ok(MatMul(a.val, b.val))

\* Lines 98-99: if ax[2] < 0: ax = -ax
Canonical(ax) == IF IsNeg(ax[3]) THEN VecNeg(ax) ELSE ax

ax_XY == <<Zero, Zero, One>>

\* Line 102: ang = np.dot(ax_XY, ax) / np.sqrt(np.sum(ax**2)), used as an
\* angle in radians by line 107.
AngleTo(ax) == Rad(Div(VecDot(ax_XY, ax), Sqrt(VecDot(ax, ax))))
ReflectionAngle(ax) == AngleTo(Canonical(ax))

\* Lines 103-104: the cross product, divided by its length
ReflectionAxis(ax) == Normalize(VecCross(ax_XY, Canonical(ax)))

\* Line 107: the two rotations, self._rotation(ang, rot_ax) first and
\* self._rotation(-ang, rot_ax) second
RotationPair(self, ang, rot_ax, eighNaN) ==
  [n \in 1..2 |-> rotation(self, IF n = 1 THEN ang ELSE AngNeg(ang), rot_ax, eighNaN)]

\* Line 107: np.einsum("ij,jk,kl->il", R[1], Sigma, R[2])
Sandwich(R, Sigma) == DotOutcome(DotOutcome(R[1], Ok(Sigma)), R[2])

reflection(self, ax, eighNaN) ==
  Sandwich(RotationPair(self, ReflectionAngle(ax), ReflectionAxis(ax), eighNaN),
           self.SigmaXY)

\* Lines 77-84: the branch taken for op_type; rot and ref are the outcomes of
\* self._rotation(ang, ax) and self._reflection(ax), which only the branches
\* that call them evaluate.
Branch(op_type, rot, ref) ==
  IF op_type = "Cn" THEN rot
  ELSE IF op_type = "Sigma" THEN ref
  ELSE IF op_type = "Sn" THEN DotOutcome(ref, rot)
  ELSE [kind |-> "None"]

\* Lines 75-84, for the normalised axis and the absolute angle of lines
\* 72-73: the value returned or the exception raised, with the values the
\* locals ax and ang hold when the call ends.
Dispatch(self, ang, ax, op_type, eighNaN) ==
  [out |-> IF ~AngBelowTwoPi(ang) THEN Raise("AssertionError")
           ELSE Branch(op_type, rotation(self, ang, ax, eighNaN),
                       reflection(self, ax, eighNaN)),
   ax |-> ax,
   ang |-> ang]

\* gen_op(self, ang, ax, op_type)
gen_op(self, ang, ax, op_type, eighNaN) ==
  Dispatch(self, AngAbs(ang), Normalize(AsArray(ax)), op_type, eighNaN)

----------------------------------------------------------------------------
(* SU.__init__(self, L).  The argument is a Python number: an int n, or a  *)
(* float num/2 (integer-valued when num is even).                          *)

IntArg(n) == [ty |-> "int", num |-> n, den |-> 1]
FloatArg(num) == [ty |-> "float", num |-> num, den |-> 2]

\* int(L) for L >= 0
IntOf(Lin) == Lin.num \div Lin.den

RECURSIVE IntPow(_, _)
IntPow(b, n) == IF n = 0 THEN 1 ELSE b * IntPow(b, n - 1)

\* SUM_{m = -L..upTo} m^j
RECURSIVE PowerSum(_, _, _)
PowerSum(L, j, upTo) == IF upTo < -L THEN 0 ELSE PowerSum(L, j, upTo - 1) + IntPow(upTo, j)

\* Line 43: np.allclose(M, np.conj(M.T))
IsHermitian(M) == M = ConjT(M)

\* Lines 46-57: the sorted eigenvalues of M are -L..L, with no imaginary
\* part.  The eigenvalues of a d x d matrix are those numbers exactly when
\* trace(M^j) = SUM_m m^j for j = 1..d (Newton's identities).
TracesAre(Pw, L) ==
  \A j \in 1..(Len(Pw) - 1) : Trace(Pw[j + 1]) = FromInt(PowerSum(L, j, L))

SpectrumIs(M, L) == TracesAre(Powers(M, Dim(L)), L)

\* Lines 40-57: the assertions on the generators Lx, Ly, Lz
SelfCheck(self) ==
  /\ \A M \in {self.Lx, self.Ly, self.Lz} : Size(M) = Dim(self.L)
  /\ \A M \in {self.Lx, self.Ly, self.Lz} : IsHermitian(M)
  /\ \A M \in {self.Lx, self.Ly, self.Lz} : SpectrumIs(M, self.L)

\* Lines 27-34: the attributes set before the assertions
Generators(L) == [L |-> L, Lz |-> Lz(L), Lx |-> Lx(L), Ly |-> Ly(L)]

\* Lines 40-60: the assertions, and self.SigmaXY once they have passed
Checked(gens) ==
  IF ~SelfCheck(gens) THEN [exc |-> "AssertionError", self |-> gens]
  ELSE [exc |-> "none",
        self |-> [L |-> gens.L, Lz |-> gens.Lz, Lx |-> gens.Lx, Ly |-> gens.Ly,
                  SigmaXY |-> SigmaXY(gens.L)]]

\* The outcome of SU(L): the exception raised ("none": none) and the
\* attributes of self set by then.
SU(Lin) ==
  IF Lin.num < 0 THEN [exc |-> "AssertionError", self |-> <<>>]
  ELSE IF Lin.ty # "int"
    \* line 30: range(-L, L + 1) of a float
    THEN [exc |-> "TypeError", self |-> [L |-> IntOf(Lin)]]
  ELSE Checked(Generators(IntOf(Lin)))

----------------------------------------------------------------------------
(* The D2 worked example (the notebook's third cell).                      *)

ExampleL == 2
\* np.pi, in quarter turns
ExamplePi == HalfPi(2)

character_table_D2 ==
  [A |-> <<1, 1, 1, 1>>, B1 |-> <<1, 1, -1, -1>>, B2 |-> <<1, -1, 1, -1>>,
   B3 |-> <<1, -1, -1, 1>>]

\* np.real(x)
Real(x) ==
  IF ~IsFinite(x) THEN NaN
  ELSE Canon(x.d, [r \in DOMAIN x.t |-> <<x.t[r][1], 0>>])

\* The axes of Cz, Cy, Cx
D2Axes == <<<<0, 0, 1>>, <<0, 1, 0>>, <<1, 0, 0>>>>

\* D.gen_op(np.pi, ax) for each of the axes
D2Rotations(D, axes) ==
  [n \in 1..Len(axes) |-> gen_op(D, ExamplePi, axes[n], "Cn", "nan").out.val]

\* [E, Cz, Cy, Cx] for the space D
D2Group(D) == <<Eye(Dim(D.L))>> \o D2Rotations(D, D2Axes)

\* chi.append(np.real(np.einsum("ii->", op)))
Characters(group) == [i \in 1..Len(group) |-> Real(Trace(group[i]))]

\* np.dot(ch, chi), summed over the first n entries
RECURSIVE DotUpTo(_, _, _)
DotUpTo(ch, chi, n) ==
  IF n = 0 THEN Zero ELSE Add(DotUpTo(ch, chi, n - 1), Mul(FromInt(ch[n]), chi[n]))

\* The overlap without the division by the group order: ch[0] * np.dot(ch, chi)
OverlapUnnormalized(ch, chi) == Mul(FromInt(ch[1]), DotUpTo(ch, chi, Len(ch)))

\* dp = ch[0] / len(D2_group) * np.dot(ch, chi)
Overlap(ch, chi) == Mul(Rat(ch[1], Len(chi)), DotUpTo(ch, chi, Len(ch)))

\* P += ch[i] * D2_group[i], over the first n group elements
RECURSIVE ProjUpTo(_, _, _)
ProjUpTo(ch, group, n) ==
  IF n = 0 THEN ZeroMat(Size(group[1]))
  ELSE MatAdd(ProjUpTo(ch, group, n - 1), Scale(FromInt(ch[n]), group[n]))

----------------------------------------------------------------------------
(* The state machine: one SU object and its caller.                        *)

\* Bounds of the model
MaxL == 3        \* SU(L) is called with ints -1..MaxL and floats -1/2..MaxL
MaxOpL == 2      \* gen_op is called on spaces with L <= MaxOpL
MaxK == 4        \* angles are k * (pi/2) for k in -MaxK..MaxK (2*pi is k = 4)

LInputs ==
  {IntArg(n) : n \in -1..MaxL} \cup {FloatArg(num) : num \in -1..(2 * MaxL)}

\* Axes and plane normals passed to gen_op (lists of three integers)
Axes ==
  {<<0, 0, 0>>, <<1, 0, 0>>, <<0, 1, 0>>, <<0, 0, 1>>, <<-1, 0, 0>>, <<0, -1, 0>>,
   <<0, 0, -1>>, <<0, 0, 2>>, <<1, 1, 0>>, <<1, -1, 0>>, <<0, 1, 1>>, <<1, 0, -1>>,
   <<1, 1, 1>>}

Angles == {HalfPi(k) : k \in -MaxK..MaxK}

\* The recognised tags, and the two tags the comment of line 69 and the
\* message of line 84 name
OpTypes == {"Cn", "Sigma", "Sn", "rot", "ref"}

VARIABLES
  pc,        \* "new", "ready" (constructed), "returned" (gen_op ended), "failed"
  Lin,       \* the argument of SU(L)
  self,      \* the attributes of the SU object
  exc,       \* the exception SU(L) raised, or "none"
  call,      \* the arguments of the last gen_op call
  ret,       \* what the last gen_op call ended with
  chi,       \* the worked example's characters
  dp,        \* the worked example's overlaps
  proj_operators

vars == <<pc, Lin, self, exc, call, ret, chi, dp, proj_operators>>

Init ==
  /\ pc = "new"
  /\ Lin = <<>>
  /\ self = <<>>
  /\ exc = "none"
  /\ call = <<>>
  /\ ret = <<>>
  /\ chi = <<>>
  /\ dp = <<>>
  /\ proj_operators = <<>>

\* D = SU(L)
Construct(L) ==
  /\ pc = "new"
  /\ \E c \in {SU(L)} :
       /\ self' = c.self
       /\ exc' = c.exc
       /\ pc' = IF c.exc = "none" THEN "ready" ELSE "failed"
  /\ Lin' = L
  /\ UNCHANGED <<call, ret, chi, dp, proj_operators>>

\* The cell's lines 135-174, for the space D
D2Analysis(D) ==
  \E D2_group \in {D2Group(D)} :
    \E chars \in {Characters(D2_group)} :
      /\ chi' = chars
      /\ dp' = [ichar \in DOMAIN character_table_D2 |->
                  Overlap(character_table_D2[ichar], chars)]
      /\ proj_operators' =
           [ichar \in DOMAIN character_table_D2 |->
              ProjUpTo(character_table_D2[ichar], D2_group, Len(D2_group))]

\* The third cell, run from the top
RunD2Cell ==
  /\ pc = "new"
  /\ Lin' = IntArg(ExampleL)
  /\ \E c \in {SU(IntArg(ExampleL))} :
       /\ self' = c.self
       /\ exc' = c.exc
       /\ IF c.exc # "none"
          THEN /\ pc' = "failed"
               /\ UNCHANGED <<chi, dp, proj_operators>>
          ELSE /\ pc' = "ready"
               /\ D2Analysis(c.self)
  /\ UNCHANGED <<call, ret>>

\* Whether every phase exp(-i*ang*e) the call computes is a number of the model
ExactInput(L, ax, op_type) ==
  op_type \in {"Sigma", "Sn"} =>
    \A e \in -L..L : PhaseExact(ReflectionAngle(Normalize(AsArray(ax))), e)

\* gen_op keeping the reflection it built in self.SigmaXY
GenOpStoringSigma(ang, ax, op_type, eighNaN) ==
  /\ pc = "ready"
  /\ self.L <= MaxOpL
  /\ ExactInput(self.L, ax, op_type)
  /\ call' = [ang |-> ang, ax |-> ax, op_type |-> op_type]
  /\ \E r \in {gen_op(self, ang, ax, op_type, eighNaN)} :
       /\ ret' = r
       /\ self' = IF op_type = "Sigma" /\ r.out.kind = "ok"
                  THEN [self EXCEPT !.SigmaXY = r.out.val]
                  ELSE self
  /\ pc' = "returned"
  /\ UNCHANGED <<Lin, exc, chi, dp, proj_operators>>

\* self.gen_op(ang, ax, op_type)
GenOp(ang, ax, op_type, eighNaN) ==
  /\ pc = "ready"
  /\ self.L <= MaxOpL
  /\ ExactInput(self.L, ax, op_type)
  /\ call' = [ang |-> ang, ax |-> ax, op_type |-> op_type]
  /\ ret' = gen_op(self, ang, ax, op_type, eighNaN)
  /\ pc' = "returned"
  /\ UNCHANGED <<Lin, self, exc, chi, dp, proj_operators>>

\* The caller takes the result and goes on
Resume ==
  /\ pc = "returned"
  /\ pc' = "ready"
  /\ call' = <<>>
  /\ ret' = <<>>
  /\ UNCHANGED <<Lin, self, exc, chi, dp, proj_operators>>

Next ==
  \/ \E L \in LInputs : Construct(L)
  \/ RunD2Cell
  \/ \E ang \in Angles, ax \in Axes, op_type \in OpTypes, eighNaN \in EighNaNOutcomes :
       GenOp(ang, ax, op_type, eighNaN)
  \/ Resume

Spec == Init /\ [][Next]_vars

----------------------------------------------------------------------------
(* The claims.                                                             *)

ZeroAxis == <<0, 0, 0>>
NegAxis(ax) == <<-ax[1], -ax[2], -ax[3]>>
ParallelToZ(ax) == ax[1] = 0 /\ ax[2] = 0 /\ ax[3] # 0
InXYPlane(ax) == ax[3] = 0 /\ ax # ZeroAxis
Returned(op_type) == pc = "returned" /\ call.op_type = op_type
\* |ang| < 2*pi
InDomain(ang) == Abs(ang.v) < 4

\* C1: a gen_op call with an unrecognised operator-type tag, a non-zero axis
\* and |angle| < 2*pi ends with an exception: it never returns an array or None.
C1_UnrecognizedTypeFails ==
  (pc = "returned" /\ call.op_type \notin {"Cn", "Sigma", "Sn"}
     /\ call.ax # ZeroAxis /\ InDomain(call.ang))
    => ret.out.kind \notin {"ok", "None"}

\* C2: for every operator type, a gen_op call with the zero vector as axis
\* (and |angle| < 2*pi) ends with the exception of the parameter check (an
\* AssertionError), raised before the axis is divided by its length: the
\* local ax still holds the caller's vector.
C2_ZeroAxisRejectedFirst ==
  (pc = "returned" /\ call.ax = ZeroAxis /\ InDomain(call.ang))
    => (ret.out.kind = "AssertionError" /\ ret.ax = AsArray(call.ax))

\* C3: a reflection whose normal is parallel to the z axis returns SigmaXY itself.
C3_ReflectionAlongZ ==
  (Returned("Sigma") /\ ParallelToZ(call.ax) /\ InDomain(call.ang))
    => ret.out = Ok(self.SigmaXY)

\* Whether the Python number L has a fractional part
NotAnInteger(L) == L.num % L.den # 0

\* C4: SU(L) with L negative or not an integer ends with the exception of
\* the input check (an AssertionError) before any attribute of self is set.
C4_BadLRejectedFirst ==
  (pc \in {"ready", "failed"} /\ (Lin.num < 0 \/ NotAnInteger(Lin)))
    => (exc = "AssertionError" /\ DOMAIN self = {})

\* C5: for every non-zero axis n and angle theta with 0 < theta < 2*pi, the
\* operator gen_op returns for (-theta, n) is the one it returns for (+theta, -n).
C5_NegativeAngleIsOppositeAxis ==
  (Returned("Cn") /\ call.ax # ZeroAxis /\ call.ang.v < 0 /\ InDomain(call.ang))
    => \A eighNaN \in EighNaNOutcomes :
         ret.out = gen_op(self, AngNeg(call.ang), NegAxis(call.ax), "Cn", eighNaN).out

\* C6: for a fixed non-zero axis, the product of the rotation by theta1 with
\* the rotation by theta2 is the rotation by (theta1 + theta2) mod 2*pi, for
\* all theta1, theta2 in [0, 2*pi); the rotation by 0 is the identity.
C6_RotationComposition ==
  (Returned("Cn") /\ call.ax # ZeroAxis /\ call.ang.v >= 0 /\ InDomain(call.ang))
    => /\ ret.out.kind = "ok"
       /\ call.ang.v = 0 => ret.out.val = Eye(Dim(self.L))
       /\ \A k2 \in 0..3 :
            \A r2 \in {gen_op(self, HalfPi(k2), call.ax, "Cn", "raise").out} :
              \A r12 \in {gen_op(self, HalfPi((call.ang.v + k2) % 4), call.ax, "Cn",
                                 "raise").out} :
                r2.kind = "ok" /\ r12.kind = "ok" /\ MatMul(ret.out.val, r2.val) = r12.val

\* A rotation by 3*pi/2 about a tilted axis of an L >= 1 space was returned;
\* composed with itself it is the rotation by 6*pi/2 mod 2*pi = pi.
C6_Witness ==
  /\ Returned("Cn") /\ call.ax = <<1, 1, 0>> /\ call.ang = HalfPi(3) /\ self.L = 1
  /\ ret.out.kind = "ok"
  /\ ret.out.val # Eye(3)
  /\ MatMul(ret.out.val, ret.out.val) = rotation(self, HalfPi(2), ret.ax, "nan").val

\* C7: once the space is constructed, no gen_op call (returning or raising)
\* changes its L, Lx, Ly, Lz or SigmaXY.
C7_GenOpLeavesSpace ==
  [][(pc \in {"ready", "returned"}) => (self' = self)]_vars

\* A call on a constructed space has raised, and the space is as constructed.
C7_Witness ==
  /\ pc = "returned"
  /\ ret.out.kind \in {"LinAlgError", "AssertionError"}
  /\ self = SU(Lin).self
  /\ DOMAIN self = {"L", "Lx", "Ly", "Lz", "SigmaXY"}

\* C8: for L = 2 the traces of Identity and the rotations by pi about z, y, x
\* are [5, 1, 1, 1], and the overlaps with the characters A, B1, B2, B3 are
\* [2, 1, 1, 1].
C8_D2Characters ==
  chi # <<>> =>
    /\ self.L = 2
    /\ chi = <<FromInt(5), One, One, One>>
    /\ dp = [A |-> FromInt(2), B1 |-> One, B2 |-> One, B3 |-> One]

\* The worked example has run on the 5 x 5 operators.
C8_Witness ==
  /\ pc = "ready" /\ Len(chi) = 4 /\ DOMAIN dp = {"A", "B1", "B2", "B3"}
  /\ Size(self.Lx) = 5

\* The angle whose cosine is c, for c in {0, 1, -1}
ArcCos(c) == IF c = Zero THEN HalfPi(1) ELSE IF c = One THEN HalfPi(0) ELSE HalfPi(2)

\* rotate(-phi, r) . SigmaXY . rotate(+phi, r) for the unit normal n, with r
\* the normalised z x n and phi the angle whose cosine is z . n
ClaimedReflection(space, n) ==
  LET phi == ArcCos(VecDot(ax_XY, n))
      r == ReflectionAxis(n)
  IN DotOutcome(DotOutcome(rotation(space, AngNeg(phi), r, "nan"), Ok(space.SigmaXY)),
                rotation(space, phi, r, "nan"))

\* C9: for a unit normal n in the xy plane (n_z = 0, so the angle between z
\* and n is pi/2), the reflection is rotate(-phi, r) . SigmaXY . rotate(+phi, r)
\* with r the normalised z x n and phi the angle whose cosine is z . n.
C9_ReflectionByConjugation ==
  (Returned("Sigma") /\ InXYPlane(call.ax) /\ InDomain(call.ang))
    => ret.out = ClaimedReflection(self, ret.ax)

\* C10: the constructed generators satisfy [Lx, Ly] = i Lz, [Ly, Lz] = i Lx,
\* [Lz, Lx] = i Ly, and the raising and lowering matrices satisfy
\* [Lp, Lm] = 2 Lz and [Lz, Lp] = Lp.
C10_Commutation ==
  (pc = "ready" /\ call = <<>>) =>
    /\ Commutator(self.Lx, self.Ly) = Scale(ImagUnit, self.Lz)
    /\ Commutator(self.Ly, self.Lz) = Scale(ImagUnit, self.Lx)
    /\ Commutator(self.Lz, self.Lx) = Scale(ImagUnit, self.Ly)
    /\ Commutator(Lp(self.L), Lm(self.L)) = Scale(FromInt(2), self.Lz)
    /\ Commutator(self.Lz, Lp(self.L)) = Lp(self.L)

\* A space with L = 3 was constructed: its Lp holds sqrt(6), sqrt(10), sqrt(12)
\* below the diagonal.
C10_Witness ==
  /\ pc = "ready" /\ self.L = 3
  /\ Lp(3)[2][1] = SqrtInt(6) /\ Lp(3)[3][2] = SqrtInt(10) /\ Lp(3)[4][3] = SqrtInt(12)
  /\ self.Lx[2][1] = Mul(Rat(1, 2), SqrtInt(6))
====
